---- MODULE Spec2Model ----
(***************************************************************************)
(* A model of app.py, the Streamlit "YouTube Channel Dashboard".           *)
(*                                                                         *)
(* The script is run top to bottom on every user interaction.  Its state   *)
(* is st.session_state (page, section, metric_page, time_frame,            *)
(* chart_type and the two keyed date inputs); its environment is the       *)
(* working directory (the two stylesheets and the CSV file) and the wall   *)
(* clock.  A button handler assigns session state and calls st.rerun();    *)
(* the run that follows only reads the state, so what a run renders is     *)
(* the operator Script of the state, and a button can be pressed only      *)
(* when Script reaches the line that draws it.                             *)
(*                                                                         *)
(* Dates are day numbers counted from 2024-01-01 (day 0, a Monday); a      *)
(* datetime is a number of ticks, TicksPerDay ticks to the day.  Python    *)
(* strings that the script transforms are sequences of one-character       *)
(* strings; floats are exact fractions [num, den] (den = 0 stands for      *)
(* inf, -inf and nan), so float rounding is left out.                      *)
(*                                                                         *)
(* Streamlit itself is not part of the script: a keyed widget keeps its    *)
(* value for the session, and one interaction is handled per run.          *)
(***************************************************************************)
EXTENDS Integers, Sequences, FiniteSets, TLC

VARIABLES
    page,         \* st.session_state.page
    section,      \* st.session_state.section
    metric_page,  \* st.session_state.metric_page
    time_frame,   \* st.session_state.time_frame (selectbox key)
    chart_type,   \* st.session_state.chart_type (selectbox key)
    start_date,   \* st.session_state.start_date (date_input key)
    end_date,     \* st.session_state.end_date (date_input key)
    files,        \* the files present in the working directory
    csv,          \* the table held by youtube_channel_data.csv
    now,          \* datetime.now(), in ticks
    trail,        \* the navigation clicks since the session started
    arg,          \* the arguments of a direct call of calculate_delta
    ret           \* what that call returned

vars == <<page, section, metric_page, time_frame, chart_type, start_date,
          end_date, files, csv, now, trail, arg, ret>>

-----------------------------------------------------------------------------
(* Bounds of the model *)

\* Rows of the largest CSV file.
MaxRows == 3

\* How many ticks the wall clock advances during a session.
MaxTicks == 1

\* Ticks to the day: the resolution of the time of day.
TicksPerDay == 2

\* Largest absolute value of a cell in a direct call of calculate_delta.
MaxVal == 2

\* Longest table in a direct call of calculate_delta.
MaxLen == 3

-----------------------------------------------------------------------------
(* Python values *)

\* None, where the other values are strings.
None == "None"

\* None, where the other values are sequences of characters.
NoKey == << >>

Lowercase ==
    <<"a","b","c","d","e","f","g","h","i","j","k","l","m",
      "n","o","p","q","r","s","t","u","v","w","x","y","z">>

Uppercase ==
    <<"A","B","C","D","E","F","G","H","I","J","K","L","M",
      "N","O","P","Q","R","S","T","U","V","W","X","Y","Z">>

\* The lower-case form of each upper-case letter, and the reverse.
ToLower ==
    [c \in {Uppercase[i] : i \in 1..Len(Uppercase)} |->
        Lowercase[CHOOSE i \in 1..Len(Uppercase) : Uppercase[i] = c]]

ToUpper ==
    [c \in {Lowercase[i] : i \in 1..Len(Lowercase)} |->
        Uppercase[CHOOSE i \in 1..Len(Lowercase) : Lowercase[i] = c]]

IsCased(c) == c \in DOMAIN ToLower \/ c \in DOMAIN ToUpper

LowerChar(c) == IF c \in DOMAIN ToLower THEN ToLower[c] ELSE c

UpperChar(c) == IF c \in DOMAIN ToUpper THEN ToUpper[c] ELSE c

\* str.replace(old, new) for one-character old and new.
str_replace(s, old, new) ==
    [i \in 1..Len(s) |-> IF s[i] = old THEN new ELSE s[i]]

\* str.lower()
str_lower(s) == [i \in 1..Len(s) |-> LowerChar(s[i])]

\* str.capitalize(): only the first character is upper-cased.
str_capitalize(s) ==
    [i \in 1..Len(s) |-> IF i = 1 THEN UpperChar(s[i]) ELSE LowerChar(s[i])]

\* str.title(): a cased character is upper-cased when it starts the string
\* or follows an uncased character, and lower-cased otherwise.
str_title(s) ==
    [i \in 1..Len(s) |->
        IF i = 1 \/ ~IsCased(s[i - 1]) THEN UpperChar(s[i]) ELSE LowerChar(s[i])]

-----------------------------------------------------------------------------
(* Numbers *)

Abs(x) == IF x < 0 THEN -x ELSE x

Sign(x) == IF x < 0 THEN -1 ELSE IF x > 0 THEN 1 ELSE 0

RECURSIVE GCD(_, _)
GCD(a, b) == IF b = 0 THEN a ELSE GCD(b, a % b)

\* The fraction n/d in lowest terms; x/0 is inf, -inf or nan.
Fraction(n, d) ==
    IF d = 0 THEN [num |-> Sign(n), den |-> 0]
    ELSE LET g == GCD(Abs(n), Abs(d))
         IN  [num |-> (Sign(d) * n) \div g, den |-> Abs(d) \div g]

Zero == Fraction(0, 1)

IsFinite(r) == r.den # 0

-----------------------------------------------------------------------------
(* The calendar (datetime, timedelta) *)

IsLeap(y) == (y % 4 = 0 /\ y % 100 # 0) \/ y % 400 = 0

DaysInMonth(y, m) ==
    IF m = 2 THEN (IF IsLeap(y) THEN 29 ELSE 28)
    ELSE IF m \in {4, 6, 9, 11} THEN 30 ELSE 31

RECURSIVE DaysBefore(_, _)
\* Days from 2024-01-01 to the first day of month m of year y.
DaysBefore(y, m) ==
    IF y = 2024 /\ m = 1 THEN 0
    ELSE IF m = 1 THEN DaysBefore(y - 1, 12) + DaysInMonth(y - 1, 12)
    ELSE DaysBefore(y, m - 1) + DaysInMonth(y, m - 1)

\* datetime(y, m, d) as a day number.
Ordinal(y, m, d) == DaysBefore(y, m) + d - 1

RECURSIVE YmdFrom(_, _, _)
YmdFrom(y, m, n) ==
    IF n < DaysInMonth(y, m) THEN [year |-> y, month |-> m, day |-> n + 1]
    ELSE IF m = 12 THEN YmdFrom(y + 1, 1, n - DaysInMonth(y, m))
    ELSE YmdFrom(y, m + 1, n - DaysInMonth(y, m))

\* The year, month and day of each day number of 2024.
Calendar == [n \in 0..Ordinal(2024, 12, 31) |-> YmdFrom(2024, 1, n)]

\* The year, month and day of day number n.
Ymd(n) == Calendar[n]

\* 0 is Monday, 6 is Sunday.
Weekday(n) == n % 7

\* datetime.date() of a datetime, and the datetime of a date at midnight.
DateOf(t) == t \div TicksPerDay

Midnight(n) == n * TicksPerDay

\* timedelta(days = k)
Days(k) == k * TicksPerDay

\* datetime.replace(day = d): the time of day is kept.
ReplaceDay(t, d) ==
    LET c == Ymd(DateOf(t))
    IN  Midnight(Ordinal(c.year, c.month, d)) + (t % TicksPerDay)

-----------------------------------------------------------------------------
(* The data *)

\* The (title, column) pairs of the metrics list; the colour is styling.
metrics ==
    <<
      [title  |-> <<"T","o","t","a","l"," ","S","u","b","s","c","r","i","b","e","r","s">>,
       column |-> "NET_SUBSCRIBERS"],
      [title  |-> <<"T","o","t","a","l"," ","V","i","e","w","s">>,
       column |-> "VIEWS"],
      [title  |-> <<"T","o","t","a","l"," ","W","a","t","c","h"," ","H","o","u","r","s">>,
       column |-> "WATCH_HOURS"],
      [title  |-> <<"T","o","t","a","l"," ","L","i","k","e","s">>,
       column |-> "LIKES"],
      [title  |-> <<"T","o","t","a","l"," ","S","h","a","r","e","s">>,
       column |-> "SHARES"],
      [title  |-> <<"T","o","t","a","l"," ","C","o","m","m","e","n","t","s">>,
       column |-> "COMMENTS"],
      [title  |-> <<"S","u","b","s","c","r","i","b","e","r","s"," ","G","a","i","n","e","d">>,
       column |-> "SUBSCRIBERS_GAINED"],
      [title  |-> <<"S","u","b","s","c","r","i","b","e","r","s"," ","L","o","s","t">>,
       column |-> "SUBSCRIBERS_LOST"]
    >>

\* The columns the CSV file is meant to have.
RawColumns ==
    {"DATE", "VIEWS", "WATCH_HOURS", "LIKES", "SHARES", "COMMENTS",
     "SUBSCRIBERS_GAINED", "SUBSCRIBERS_LOST"}

\* The last DATE of the full CSV file of the model: Monday 2024-04-01, the
\* first day of a week, a month and a quarter.
LastDay == Ordinal(2024, 4, 1)

FirstDay == LastDay - MaxRows + 1

\* Row i of the full CSV file: one row per calendar day.
BaseCell(c, i) ==
    CASE c = "DATE"               -> FirstDay + i - 1
      [] c = "VIEWS"              -> 10 * i
      [] c = "WATCH_HOURS"        -> i * i
      [] c = "LIKES"              -> i
      [] c = "SHARES"             -> 0
      [] c = "COMMENTS"           -> IF i % 2 = 0 THEN 0 ELSE 4
      [] c = "SUBSCRIBERS_GAINED" -> i
      [] c = "SUBSCRIBERS_LOST"   -> 2

BaseCsv(n, cols) == [i \in 1..n |-> [c \in cols |-> BaseCell(c, i)]]

\* The CSV files of the model: the full table and its shorter prefixes, and
\* the full table with one column left out.
CsvFiles ==
    {BaseCsv(n, RawColumns) : n \in 1..MaxRows}
        \cup {BaseCsv(MaxRows, RawColumns \ {c}) : c \in RawColumns}

CssFiles == {"style.css", "section2_style.css"}

CsvFile == "youtube_channel_data.csv"

\* The working directories of the model.
Directories == {d \cup {CsvFile} : d \in SUBSET CssFiles} \cup {CssFiles}

\* df.columns
Columns(df) == IF df = << >> THEN {} ELSE DOMAIN df[1]

\* open(file_name) and the st.markdown of its text.
local_css(file_name) ==
    IF file_name \in files
    THEN [raised |-> "", style |-> file_name]
    ELSE [raised |-> "FileNotFoundError", style |-> ""]

\* The exception load_data ends with ("" when it returns): the file is
\* missing, or the table lacks a column load_data reads.
LoadError ==
    IF CsvFile \notin files THEN "FileNotFoundError"
    ELSE IF {"DATE", "SUBSCRIBERS_GAINED", "SUBSCRIBERS_LOST"} \subseteq Columns(csv)
    THEN ""
    ELSE "KeyError"

\* pd.read_csv, the parse of DATE and the derived NET_SUBSCRIBERS column.
load_data ==
    IF LoadError # "" THEN << >>
    ELSE [i \in 1..Len(csv) |->
            [c \in Columns(csv) \cup {"NET_SUBSCRIBERS"} |->
                IF c = "NET_SUBSCRIBERS"
                THEN csv[i]["SUBSCRIBERS_GAINED"] - csv[i]["SUBSCRIBERS_LOST"]
                ELSE csv[i][c]]]

\* df[column].iloc[k] for k < 0.
ILoc(df, column, k) == df[Len(df) + 1 + k][column]

\* calculate_delta without the test for a previous value of 0.
calculate_delta_Unguarded(df, column) ==
    IF Len(df) < 2 THEN <<0, Zero>>
    ELSE LET current_value  == ILoc(df, column, -1)
             previous_value == ILoc(df, column, -2)
             delta          == current_value - previous_value
         IN  <<delta, Fraction(delta * 100, previous_value)>>

\* column is a column of df: the callers read df[column] before the call.
calculate_delta(df, column) ==
    IF Len(df) < 2 THEN <<0, Zero>>
    ELSE LET current_value  == ILoc(df, column, -1)
             previous_value == ILoc(df, column, -2)
             delta          == current_value - previous_value
             delta_percent  == IF previous_value # 0
                               THEN Fraction(delta * 100, previous_value)
                               ELSE Zero
         IN  <<delta, delta_percent>>

is_period_complete(date, freq, today) ==
    CASE freq = "D" -> DateOf(date) < DateOf(today)
      [] freq = "W" -> date + Days(6) < today
      [] freq = "M" ->
            LET next_month == ReplaceDay(date, 28) + Days(4)
            IN  ReplaceDay(next_month, 1) <= today
      [] freq = "Q" ->
            LET t                     == Ymd(DateOf(today))
                current_month         == ((t.month - 1) \div 3) * 3 + 1
                current_quarter_start == Midnight(Ordinal(t.year, current_month, 1))
            IN  date < current_quarter_start
      [] OTHER -> TRUE

\* The label pandas gives the bin of day n: the day itself ('D'), the Sunday
\* that ends its week ('W'), the last day of its month ('M') or quarter ('Q').
BinLabel(n, freq) ==
    LET c  == Ymd(n)
        qm == ((c.month - 1) \div 3) * 3 + 3
    IN  CASE freq = "W" -> n + (6 - Weekday(n))
          [] freq = "M" -> Ordinal(c.year, c.month, DaysInMonth(c.year, c.month))
          [] freq = "Q" -> Ordinal(c.year, qm, DaysInMonth(c.year, qm))
          [] OTHER      -> n

RECURSIVE BinLabels(_, _, _)
\* The labels of the bins from the one labelled l to the one labelled last.
BinLabels(l, last, freq) ==
    IF l > last THEN << >>
    ELSE <<l>> \o BinLabels(BinLabel(l + 1, freq), last, freq)

RECURSIVE SumWhere(_, _, _, _)
\* The sum of column over the rows of df from row i on whose DATE is in days.
SumWhere(df, column, days, i) ==
    IF i > Len(df) THEN 0
    ELSE (IF df[i]["DATE"] \in days THEN df[i][column] ELSE 0)
             + SumWhere(df, column, days, i + 1)

\* df.set_index("DATE").resample(freq).sum(): one row per bin from the bin
\* of the first DATE to the bin of the last, an empty bin summing to 0.
Resample(df, freq) ==
    IF df = << >> THEN << >>
    ELSE LET first  == df[1]["DATE"]
             last   == df[Len(df)]["DATE"]
             labels == BinLabels(BinLabel(first, freq), BinLabel(last, freq), freq)
             bin(k) == {n \in first..last : BinLabel(n, freq) = labels[k]}
         IN  [k \in 1..Len(labels) |->
                LET days == bin(k)
                IN  [c \in Columns(df) |->
                        IF c = "DATE" THEN labels[k] ELSE SumWhere(df, c, days, 1)]]

FreqOf(tf) ==
    CASE tf = "Quarterly" -> "Q"
      [] tf = "Monthly"   -> "M"
      [] tf = "Weekly"    -> "W"
      [] OTHER            -> "D"

\* What create_metric_chart draws: a warning, a chart of (DATE, value)
\* points, or nothing.
create_metric_chart(df, column, ct, tf, height) ==
    LET df_resampled == Resample(df, FreqOf(tf))
    IN  IF column \notin Columns(df) \ {"DATE"}
        THEN [kind |-> "warning", column |-> column, data |-> << >>, height |-> height]
        ELSE LET chart_data == [k \in 1..Len(df_resampled) |->
                                   <<df_resampled[k]["DATE"], df_resampled[k][column]>>]
             IN  [kind   |-> CASE ct = "Bar"  -> "bar_chart"
                               [] ct = "Area" -> "area_chart"
                               [] OTHER       -> "nothing",
                  column |-> column, data |-> chart_data, height |-> height]

\* The card display_metric_with_button draws for one metric, with the
\* session's chart_type ct and time_frame tf and the clock reading today.
display_metric_with_button(title, value, df, column, ct, tf, today) ==
    LET d           == calculate_delta(df, column)
        last_period == Midnight(df[Len(df)]["DATE"])
    IN  [title         |-> title,
         value         |-> value,
         delta         |-> d[1],
         delta_percent |-> d[2],
         chart         |-> create_metric_chart(df, column, ct, tf, 150),
         incomplete    |-> ~is_period_complete(last_period, FreqOf(tf), today),
         button        |-> str_lower(str_replace(title, " ", "_"))]

-----------------------------------------------------------------------------
(* One run of the script *)

Sections == {"section_1", "section_2"}

TimeFrames == {"Daily", "Weekly", "Monthly", "Quarterly"}

ChartTypes == {"Bar", "Area"}

\* The stylesheet the run loads.
StyleFile == IF section = "section_2" THEN "section2_style.css" ELSE "style.css"

\* The run gets as far as the sidebar: the stylesheet and the data loaded.
SidebarReached == local_css(StyleFile).raised = "" /\ LoadError = ""

\* The navigation buttons the sidebar draws.
SidebarButtons ==
    CASE page = "welcome"  -> {"Section 1", "Section 2"}
      [] page \in Sections -> {"Back to Welcome"}
      [] page = "metric"   ->
            IF section = "section_1" THEN {"Back to Section 1"}
            ELSE IF section = "section_2" THEN {"Back to Section 2"}
            ELSE {}
      [] OTHER -> {}

\* The settings block is drawn.
SettingsShown == page \in Sections \cup {"metric"}

\* df['DATE'].min() and df['DATE'].max()
MinDate(df) == CHOOSE d \in {df[i]["DATE"] : i \in 1..Len(df)} :
                   \A i \in 1..Len(df) : d <= df[i]["DATE"]

MaxDate(df) == CHOOSE d \in {df[i]["DATE"] : i \in 1..Len(df)} :
                   \A i \in 1..Len(df) : d >= df[i]["DATE"]

\* The values of the two date inputs: the default until the user picks one.
\* (Streamlit's own validation of a default outside [min_value, max_value]
\* is not part of the script and is not modelled.)
StartDate(df) == IF start_date = << >> THEN MaxDate(df) - 365 ELSE start_date[1]

EndDate(df) == IF end_date = << >> THEN MaxDate(df) ELSE end_date[1]

RECURSIVE SectionCards(_, _)
\* The loop over metrics on a section page, from metric i on: df[column]
\* raises KeyError for a column the data does not have, and the loop ends.
SectionCards(df, i) ==
    IF i > Len(metrics) THEN [raised |-> "", cards |-> << >>]
    ELSE IF metrics[i].column \notin Columns(df)
    THEN [raised |-> "KeyError", cards |-> << >>]
    ELSE LET total_value == SumWhere(df, metrics[i].column,
                                     {df[k]["DATE"] : k \in 1..Len(df)}, 1)
             card == display_metric_with_button(
                         metrics[i].title, total_value, df, metrics[i].column,
                         chart_type, time_frame, now)
             rest == SectionCards(df, i + 1)
         IN  [raised |-> rest.raised, cards |-> <<card>> \o rest.cards]

\* The metric page: the title decoded from metric_page, and its chart or
\* the error.
MetricPage(df) ==
    IF metric_page = NoKey
    THEN [raised |-> "AttributeError", title |-> << >>, error |-> "",
          chart |-> << >>]
    ELSE LET metric_title  == str_title(str_replace(metric_page, "_", " "))
             metric_column == {metrics[i].column : i \in
                                  {j \in 1..Len(metrics) : metrics[j].title = metric_title}}
         IN  IF metric_column # {}
             THEN [raised |-> "", title |-> metric_title, error |-> "",
                   chart |-> <<create_metric_chart(df, CHOOSE c \in metric_column : TRUE,
                                                   chart_type, time_frame, 150)>>]
             ELSE [raised |-> "", title |-> metric_title,
                   error |-> "Metric column not found.", chart |-> << >>]

NothingDrawn ==
    [style |-> "", loaded |-> FALSE, sidebar |-> {}, settings |-> FALSE,
     header |-> "", cards |-> << >>, title |-> << >>, chart |-> << >>,
     error |-> "", warnings |-> {}]

\* What one run of the script draws in the current state, and the exception
\* that ended it ("" when it ran to its last line).
Script ==
    LET css  == local_css(StyleFile)
        df   == load_data
        side == [NothingDrawn EXCEPT !.style = css.style, !.loaded = TRUE,
                                     !.sidebar = SidebarButtons,
                                     !.settings = SettingsShown]
    IN  IF css.raised # "" THEN [NothingDrawn EXCEPT !.error = css.raised]
        ELSE IF LoadError # ""
        THEN [NothingDrawn EXCEPT !.style = css.style, !.error = LoadError]
        ELSE CASE page = "welcome"  -> [side EXCEPT !.header = "Welcome"]
               [] page \in Sections ->
                    LET body == SectionCards(df, 1)
                    IN  [side EXCEPT !.header = page, !.cards = body.cards,
                                     !.error = body.raised,
                                     !.warnings = {body.cards[k].chart.column :
                                                     k \in {j \in 1..Len(body.cards) :
                                                        body.cards[j].chart.kind = "warning"}}]
               [] page = "metric"   ->
                    LET body == MetricPage(df)
                    IN  [side EXCEPT !.header = "metric", !.title = body.title,
                                     !.chart = body.chart,
                                     !.error = IF body.raised # "" THEN body.raised
                                               ELSE body.error]
               [] OTHER -> side

\* The Open button of metric i is drawn: the loop got to the end of card i.
OpenButtonDrawn(i) ==
    /\ SidebarReached
    /\ page \in Sections
    /\ \A j \in 1..i : metrics[j].column \in Columns(csv) \cup {"NET_SUBSCRIBERS"}

-----------------------------------------------------------------------------
(* The navigation clicks since the session started, kept while they are the
   start of: a section, a metric, back, back. *)

Off == <<[click |-> "off", metric |-> 0, page |-> "", section |-> "",
          metric_page |-> NoKey]>>

Expected(k, click) ==
    CASE k = 1 -> click \in {"Section 1", "Section 2"}
      [] k = 2 -> click = "Open"
      [] k = 3 -> click \in {"Back to Section 1", "Back to Section 2"}
      [] k = 4 -> click = "Back to Welcome"
      [] OTHER -> FALSE

Track(click, i, p, s, m) ==
    IF trail # Off /\ Expected(Len(trail) + 1, click)
    THEN Append(trail, [click |-> click, metric |-> i, page |-> p,
                        section |-> s, metric_page |-> m])
    ELSE Off

-----------------------------------------------------------------------------
(* The user's actions *)

\* A handler's assignments to the navigation record, followed by st.rerun().
Navigate(click, i, p, s, m) ==
    /\ page' = p
    /\ section' = s
    /\ metric_page' = m
    /\ trail' = Track(click, i, p, s, m)
    /\ UNCHANGED <<time_frame, chart_type, start_date, end_date, files, csv,
                   now, arg, ret>>

SectionButton(s) == IF s = "section_1" THEN "Section 1" ELSE "Section 2"

BackButton(s) == IF s = "section_1" THEN "Back to Section 1" ELSE "Back to Section 2"

ClickSection(s) ==
    /\ SidebarReached
    /\ SectionButton(s) \in SidebarButtons
    /\ Navigate(SectionButton(s), 0, s, s, metric_page)

\* Back to Welcome without the assignment section = None.
BackToWelcome_KeepsSection ==
    /\ SidebarReached
    /\ "Back to Welcome" \in SidebarButtons
    /\ Navigate("Back to Welcome", 0, "welcome", section, metric_page)

BackToWelcome ==
    /\ SidebarReached
    /\ "Back to Welcome" \in SidebarButtons
    /\ Navigate("Back to Welcome", 0, "welcome", None, metric_page)

\* Back from the metric page that goes to welcome, not to the section.
BackToSection_ToWelcome ==
    /\ SidebarReached
    /\ \E s \in Sections :
        /\ BackButton(s) \in SidebarButtons
        /\ Navigate(BackButton(s), 0, "welcome", section, NoKey)

BackToSection ==
    /\ SidebarReached
    /\ \E s \in Sections :
        /\ BackButton(s) \in SidebarButtons
        /\ Navigate(BackButton(s), 0, s, section, NoKey)

\* The Open button without the assignment page = "metric".
OpenMetric_KeepsPage(s, i) ==
    /\ page = s
    /\ OpenButtonDrawn(i)
    /\ Navigate("Open", i, page,
                s, str_lower(str_replace(metrics[i].title, " ", "_")))

\* The Open button of metric i on the page of section s.
OpenMetric(s, i) ==
    /\ page = s
    /\ OpenButtonDrawn(i)
    /\ Navigate("Open", i, "metric",
                s, str_lower(str_replace(metrics[i].title, " ", "_")))

\* The settings block of the sidebar is drawn.
SettingsDrawn == SidebarReached /\ SettingsShown

SelectTimeFrame(tf) ==
    /\ SettingsDrawn
    /\ time_frame' = tf
    /\ UNCHANGED <<page, section, metric_page, chart_type, start_date, end_date,
                   files, csv, now, trail, arg, ret>>

SelectChartType(ct) ==
    /\ SettingsDrawn
    /\ chart_type' = ct
    /\ UNCHANGED <<page, section, metric_page, time_frame, start_date, end_date,
                   files, csv, now, trail, arg, ret>>

\* The date inputs offer the days from min_value to max_value.
PickStartDate(d) ==
    /\ SettingsDrawn
    /\ d \in MinDate(csv)..MaxDate(csv)
    /\ start_date' = <<d>>
    /\ UNCHANGED <<page, section, metric_page, time_frame, chart_type, end_date,
                   files, csv, now, trail, arg, ret>>

PickEndDate(d) ==
    /\ SettingsDrawn
    /\ d \in MinDate(csv)..MaxDate(csv)
    /\ end_date' = <<d>>
    /\ UNCHANGED <<page, section, metric_page, time_frame, chart_type, start_date,
                   files, csv, now, trail, arg, ret>>

\* The session starts at midnight six days after the last row of the full
\* CSV file.
SessionStart == Midnight(LastDay + 6)

\* The wall clock advances.
Tick ==
    /\ now < SessionStart + MaxTicks
    /\ now' = now + 1
    /\ UNCHANGED <<page, section, metric_page, time_frame, chart_type, start_date,
                   end_date, files, csv, trail, arg, ret>>

\* The environments of the model: the full CSV file in every directory, and
\* every CSV file in the directory that has all the files.
Environments ==
    {<<d, BaseCsv(MaxRows, RawColumns)>> : d \in Directories}
        \cup {<<CssFiles \cup {CsvFile}, c>> : c \in CsvFiles}

\* The session state after its initialisation at the top of the script.
InitSession ==
    /\ page = "welcome"
    /\ metric_page = NoKey
    /\ section = None
    /\ time_frame = "Daily"
    /\ chart_type = "Bar"
    /\ start_date = << >>
    /\ end_date = << >>
    /\ trail = << >>

NoCall == [df |-> << >>, column |-> ""]

Init ==
    /\ InitSession
    /\ \E e \in Environments : files = e[1] /\ csv = e[2]
    /\ now = SessionStart
    /\ arg = NoCall
    /\ ret = << >>

Next ==
    \/ \E s \in Sections : ClickSection(s)
    \/ BackToWelcome
    \/ BackToSection
    \/ \E s \in Sections, i \in 1..Len(metrics) : OpenMetric(s, i)
    \/ \E tf \in TimeFrames : SelectTimeFrame(tf)
    \/ \E ct \in ChartTypes : SelectChartType(ct)
    \/ \E d \in FirstDay..(FirstDay + MaxRows - 1) : PickStartDate(d)
    \/ \E d \in FirstDay..(FirstDay + MaxRows - 1) : PickEndDate(d)
    \/ Tick

Spec == Init /\ [][Next]_vars

-----------------------------------------------------------------------------
(* calculate_delta called directly on a table of one column *)

CellValues == (-MaxVal..MaxVal) \cup {5}

DeltaTables ==
    UNION {{[i \in 1..n |-> [c \in {"DATE", "VIEWS"} |->
                                IF c = "DATE" THEN LastDay - n + i ELSE f[i]]] :
               f \in [1..n -> CellValues]} : n \in 0..MaxLen}

InitDelta ==
    /\ InitSession
    /\ files = CssFiles \cup {CsvFile}
    /\ csv = BaseCsv(MaxRows, RawColumns)
    /\ now = SessionStart
    /\ \E t \in DeltaTables : arg = [df |-> t, column |-> "VIEWS"]
    /\ ret = << >>

CallDelta ==
    /\ ret = << >>
    /\ ret' = <<calculate_delta(arg.df, arg.column)>>
    /\ UNCHANGED <<page, section, metric_page, time_frame, chart_type, start_date,
                   end_date, files, csv, now, trail, arg>>

NextDelta == CallDelta

SpecDelta == InitDelta /\ [][NextDelta]_vars

-----------------------------------------------------------------------------
(* Properties *)

\* The key the Open button of each metric stores in metric_page.
Keys == [i \in 1..Len(metrics) |-> str_lower(str_replace(metrics[i].title, " ", "_"))]

KeyOf(i) == Keys[i]

KeysDistinct == \A i, j \in 1..Len(metrics) : Keys[i] = Keys[j] => i = j

Nav == <<page, section, metric_page>>

NavOf(r) == <<r.page, r.section, r.metric_page>>

\* The section a click on a sidebar section button selects.
SectionOf(click) == IF click = "Section 1" THEN "section_1" ELSE "section_2"

\* C1: from the initial state, the clicks section S, Open M, back, back
\* lead through (S, S, none), (metric, S, key of M), (S, S, none) and
\* (welcome, none, none) in that order, for either S and any metric M:
\* metric_page is cleared by the first back and section by the second.
C1_RoundTrip ==
    trail # Off =>
        LET n == Len(trail)
            S == SectionOf(trail[1].click)
        IN  /\ n >= 1 => NavOf(trail[1]) = <<S, S, NoKey>>
            /\ n >= 2 => NavOf(trail[2]) = <<"metric", S, KeyOf(trail[2].metric)>>
            /\ n >= 3 => NavOf(trail[3]) = <<S, S, NoKey>>
            /\ n >= 4 => NavOf(trail[4]) = <<"welcome", None, NoKey>>
            /\ Nav = IF n = 0 THEN <<"welcome", None, NoKey>> ELSE NavOf(trail[n])

\* The four clicks have been made, from section 2 and the last metric.
C1_Witness ==
    /\ trail # Off
    /\ Len(trail) = 4
    /\ trail[1].click = "Section 2"
    /\ trail[2].metric = Len(metrics)
    /\ page = "welcome"

\* C2: a step changes page only from welcome to a section, from a section
\* to metric or to welcome, and from metric to the section it was opened
\* from (section is set to that section when the metric is opened and is
\* kept while the metric page is shown).
C2_Edges ==
    [][/\ page' # page =>
            \/ page = "welcome" /\ page' \in Sections
            \/ page \in Sections /\ page' = "metric" /\ section' = page
            \/ page \in Sections /\ page' = "welcome"
            \/ page = "metric" /\ page' \in Sections /\ page' = section
       /\ page = "metric" /\ page' = "metric" => section' = section]_vars

\* Every edge has been taken: a section was selected, a metric opened and
\* left again, and the settings were changed on the way.
C2_Witness ==
    /\ trail # Off
    /\ Len(trail) = 3
    /\ page = "section_1"
    /\ time_frame = "Monthly"

\* C9: in every state the navigation record is coherent: on welcome there is
\* no section and no metric; on a section page section is that page and
\* there is no metric; on the metric page section is one of the two sections,
\* metric_page is the key of one of the metrics and a back button is drawn.
C9_Coherent ==
    /\ page \in {"welcome", "metric"} \cup Sections
    /\ page = "welcome" => section = None /\ metric_page = NoKey
    /\ page \in Sections => section = page /\ metric_page = NoKey
    /\ page = "metric" =>
        /\ section \in Sections
        /\ \E i \in 1..Len(metrics) : metric_page = KeyOf(i)
        /\ SidebarReached
        /\ SidebarButtons = {BackButton(section)}

\* The metric page of the last metric, opened from section 2 after the
\* time frame was changed.
C9_Witness ==
    /\ page = "metric"
    /\ section = "section_2"
    /\ metric_page = KeyOf(Len(metrics))
    /\ time_frame = "Quarterly"

\* C10: the key an Open button stores decodes to the title of its metric:
\* the metric page shows that title and charts that metric's column, the
\* "Metric column not found." error is never shown, and no two metrics
\* have the same key.
C10_KeyRoundTrip ==
    /\ KeysDistinct
    /\ page = "metric" =>
        LET view == Script
        IN  /\ view.error = ""
            /\ \E i \in 1..Len(metrics) :
                /\ metric_page = KeyOf(i)
                /\ view.title = metrics[i].title
                /\ Len(view.chart) = 1
                /\ view.chart[1].column = metrics[i].column
                /\ view.chart[1].kind # "warning"
            /\ trail # Off /\ Len(trail) = 2 =>
                /\ view.title = metrics[trail[2].metric].title
                /\ view.chart[1].column = metrics[trail[2].metric].column
    /\ trail # Off /\ Len(trail) = 2 => page = "metric"

\* The metric page of "Total Watch Hours", just opened from section 1.
C10_Witness ==
    /\ trail # Off
    /\ Len(trail) = 2
    /\ trail[2].metric = 3
    /\ section = "section_1"
    /\ Script.chart[1].column = "WATCH_HOURS"

\* C5: calculate_delta returns a finite percentage: (0, 0) for a table of
\* fewer than two rows, and (last - 0, 0) when the second-to-last value is 0.
C5_DeltaTotal ==
    ret # << >> =>
        LET df == arg.df
            r  == ret[1]
        IN  /\ IsFinite(r[2])
            /\ Len(df) < 2 => r = <<0, Zero>>
            /\ Len(df) >= 2 /\ df[Len(df) - 1][arg.column] = 0 =>
                   r = <<df[Len(df)][arg.column], Zero>>

\* The call on previous 0 and current 5 has returned (5, 0).
C5_Witness ==
    /\ ret = <<(<<5, Zero>>)>>
    /\ Len(arg.df) >= 2
    /\ arg.df[Len(arg.df) - 1][arg.column] = 0
    /\ arg.df[Len(arg.df)][arg.column] = 5

\* C3: on a section page the delta of every card is the delta of the last
\* two buckets of the card's column at the selected granularity.
C3_DeltaOfBuckets ==
    page \in Sections =>
        \A k \in 1..Len(Script.cards) :
            LET card == Script.cards[k]
            IN  <<card.delta, card.delta_percent>>
                    = calculate_delta(Resample(load_data, FreqOf(time_frame)),
                                      card.chart.column)

\* C4: for a selected range within the data's dates, the values of every
\* chart drawn add up to the column's sum over the rows dated in the range.
C4_SumOverRange ==
    (/\ SettingsDrawn
     /\ MinDate(csv) <= StartDate(csv)
     /\ StartDate(csv) <= EndDate(csv)
     /\ EndDate(csv) <= MaxDate(csv)) =>
        LET charts == [k \in 1..Len(Script.cards) |-> Script.cards[k].chart]
                          \o Script.chart
            total(data) == SumWhere([k \in 1..Len(data) |->
                                        [DATE |-> data[k][1], v |-> data[k][2]]],
                                    "v", {data[k][1] : k \in 1..Len(data)}, 1)
        IN  \A k \in 1..Len(charts) :
                charts[k].kind # "warning" =>
                    total(charts[k].data)
                        = SumWhere(load_data, charts[k].column,
                                   StartDate(csv)..EndDate(csv), 1)

\* C6: with the Weekly time frame a card is noted incomplete exactly when
\* fewer than 7 days lie between the date the check is given as the start
\* of the last period and the clock.
C6_WeeklyIncomplete ==
    page \in Sections /\ time_frame = "Weekly" =>
        \A k \in 1..Len(Script.cards) :
            Script.cards[k].incomplete
                <=> (now - Midnight(MaxDate(csv)) < Days(7))

\* C7: when the stylesheet of the active section is missing the run goes
\* on: it warns, loads the data and draws the sidebar and the page.
C7_MissingStyleWarns ==
    StyleFile \notin files =>
        /\ Script.error = ""
        /\ StyleFile \in Script.warnings
        /\ Script.loaded
        /\ Script.sidebar = SidebarButtons
        /\ Script.header # ""

\* C8: on a section page a metric whose column the data lacks gets a
\* warning in place of its chart, and every metric still gets its card.
C8_MissingColumnSkipped ==
    page \in Sections /\ SidebarReached =>
        /\ Script.error = ""
        /\ Len(Script.cards) = Len(metrics)
        /\ \A k \in 1..Len(Script.cards) :
            (Script.cards[k].chart.kind = "warning")
                <=> (metrics[k].column \notin Columns(load_data))

====
